---- MODULE Spec2Model ----
(***************************************************************************)
(* Model of the QuickJS <-> JVM method bridge (quickjs_bridge.cpp): the    *)
(* binding registry of one QuickJsContext, nativeRegister, the script      *)
(* dispatcher (methodDispatcher / invokeBinding) and nativeDestroy, run by *)
(* several host threads.                                                   *)
(***************************************************************************)
EXTENDS Naturals, Integers, Sequences, FiniteSets, TLC

\* ---------------------------------------------------------------- bounds
\* Total number of calls made into the bridge (nativeRegister calls and script
\* calls of bound functions), and the depth of the call stack of a thread (a
\* host method may re-enter the bridge), when nativeDestroy runs beside them.
MaxCalls == 2
MaxDepth == 1
\* The same where no nativeDestroy runs.
MaxReentryCalls == 3
MaxReentryDepth == 2
\* SpecDispatch: the number of declared parameters and of script arguments of
\* a call, and the number of script calls.
MaxParams == 2
MaxDispatchCalls == 1
\* SpecRegister: the number of nativeRegister calls.
MaxRegisterCalls == 1
\* SpecConvert: the numbers -MaxNumber..MaxNumber are converted, besides the
\* least and the greatest 32-bit integer.
MaxNumber == 4

\* ---------------------------------------------------------------- threads
\* "h1" is a host thread that registers, "js" is the thread that runs the
\* script engine (it registers and dispatches), "td" calls nativeDestroy.
Threads == {"h1", "js", "td"}
RegThreads == {"h1", "js"}
ScriptThread == "js"
TeardownThread == "td"
Free == "free"

\* ---------------------------------------------------------------- values
\* enum class ValueKind
ValueKind == {"Void", "String", "Boolean", "Int", "Long", "Double"}

\* JNI class descriptors handed to nativeRegister; "null" is a null jobject.
Descriptors ==
    {"null", "void", "java.lang.String", "java.lang.Boolean", "boolean",
     "java.lang.Integer", "int", "java.lang.Long", "long",
     "java.lang.Double", "double", "java.lang.Object"}

\* classifyParameter. refsLive is FALSE once releaseJavaReferences has set the
\* cached classes to nullptr: IsSameObject(clazz, nullptr) fails for a class.
ClassifyAsString(refsLive, d) ==
    IF d = "null" THEN "Void"
    ELSE IF ~refsLive THEN "Void"
    ELSE IF d \in {"java.lang.Boolean", "boolean"} THEN "Boolean"
    ELSE IF d \in {"java.lang.Integer", "int"} THEN "Int"
    ELSE IF d \in {"java.lang.Long", "long"} THEN "Long"
    ELSE IF d \in {"java.lang.Double", "double"} THEN "Double"
    ELSE "String"

classifyParameter(refsLive, d) ==
    IF d = "null" THEN "Void"
    ELSE IF ~refsLive THEN "Void"
    ELSE IF d = "java.lang.String" THEN "String"
    ELSE IF d \in {"java.lang.Boolean", "boolean"} THEN "Boolean"
    ELSE IF d \in {"java.lang.Integer", "int"} THEN "Int"
    ELSE IF d \in {"java.lang.Long", "long"} THEN "Long"
    ELSE IF d \in {"java.lang.Double", "double"} THEN "Double"
    ELSE "Void"

\* The parameter loop of nativeRegister: the kinds classified before the first
\* unsupported descriptor, and whether one was met.
RECURSIVE ClassifyAll(_, _)
ClassifyAll(refsLive, ds) ==
    IF ds = <<>> THEN [ok |-> TRUE, kinds |-> <<>>]
    ELSE LET k == classifyParameter(refsLive, Head(ds)) IN
         IF k = "Void" THEN [ok |-> FALSE, kinds |-> <<>>]
         ELSE LET rest == ClassifyAll(refsLive, Tail(ds)) IN
              [ok |-> rest.ok, kinds |-> <<k>> \o rest.kinds]

\* The return-type block of nativeRegister: the return kind, or "Unsupported".
ReturnKindOf(refsLive, d) ==
    IF d = "null" \/ (refsLive /\ d = "void") THEN "Void"
    ELSE LET k == classifyParameter(refsLive, d) IN
         IF k = "Void" /\ ~(refsLive /\ d = "java.lang.String") THEN "Unsupported"
         ELSE IF k = "Void" THEN "String"
         ELSE k

\* Script values: ty is the script type, v the payload of a number or boolean
\* (booleans 0 or 1), s the text of a string, or "NaN" for the number NaN.
\* Number payloads are integers inside the 32-bit range, where JS_ToInt32 and
\* JS_ToInt64 leave the value as it is.
JsUndefined == [ty |-> "undefined", v |-> 0, s |-> ""]
JsNull == [ty |-> "null", v |-> 0, s |-> ""]
JsInt(n) == [ty |-> "number", v |-> n, s |-> ""]
JsNaN == [ty |-> "number", v |-> 0, s |-> "NaN"]
\* Numbers that are no integers: n + 0.5 and +Infinity (v is what JS_ToInt32
\* and JS_ToInt64 make of them).
JsHalf(n) == [ty |-> "number", v |-> n, s |-> ".5"]
JsInfinity == [ty |-> "number", v |-> 0, s |-> "Infinity"]
JsBool(b) == [ty |-> "boolean", v |-> IF b THEN 1 ELSE 0, s |-> ""]
JsStr(txt) == [ty |-> "string", v |-> 0, s |-> txt]
JsSymbol == [ty |-> "symbol", v |-> 0, s |-> ""]
\* JS_EXCEPTION: the engine's failure marker.
JsException == [ty |-> "exception", v |-> 0, s |-> ""]

\* Host values: HostNull is nullptr, the others are boxed objects or strings.
HostNull == [cls |-> "null", v |-> 0, s |-> ""]
HostBox(cls, n) == [cls |-> cls, v |-> n, s |-> ""]
HostString(txt) == [cls |-> "String", v |-> 0, s |-> txt]

\* Decimal text of an integer (the engine's number-to-string).
Digit(d) == CASE d = 0 -> "0" [] d = 1 -> "1" [] d = 2 -> "2" [] d = 3 -> "3"
              [] d = 4 -> "4" [] d = 5 -> "5" [] d = 6 -> "6" [] d = 7 -> "7"
              [] d = 8 -> "8" [] OTHER -> "9"
RECURSIVE NatText(_)
NatText(n) == IF n < 10 THEN Digit(n) ELSE NatText(n \div 10) \o Digit(n % 10)
IntText(n) == IF n < 0 THEN "-" \o NatText(0 - n) ELSE NatText(n)

\* The engine's string-to-number on the texts the model uses.
StrToNumber(txt) ==
    CASE txt = "" -> JsInt(0)
      [] txt = "7" -> JsInt(7)
      [] OTHER -> JsNaN

\* JS_ToNumber without the symbol case (which throws).
ToNumber(x) ==
    CASE x.ty = "undefined" -> JsNaN
      [] x.ty = "null" -> JsInt(0)
      [] x.ty = "boolean" -> JsInt(x.v)
      [] x.ty = "string" -> StrToNumber(x.s)
      [] OTHER -> x

\* JS_ToCString: the text of a script value; ok is FALSE when the engine throws.
ToCString(x) ==
    CASE x.ty = "symbol" -> [ok |-> FALSE, s |-> ""]
      [] x.ty = "undefined" -> [ok |-> TRUE, s |-> "undefined"]
      [] x.ty = "null" -> [ok |-> TRUE, s |-> "null"]
      [] x.ty = "boolean" -> [ok |-> TRUE, s |-> IF x.v = 1 THEN "true" ELSE "false"]
      [] x.ty = "number" ->
           [ok |-> TRUE, s |-> IF x.s = "" THEN IntText(x.v)
                               ELSE IF x.s = ".5" THEN IntText(x.v) \o ".5"
                               ELSE x.s]
      [] OTHER -> [ok |-> TRUE, s |-> x.s]

\* JS_ToBool: never fails on a value.
ToBool(x) ==
    CASE x.ty \in {"undefined", "null"} -> FALSE
      [] x.ty = "boolean" -> x.v = 1
      [] x.ty = "number" -> ~(x.s = "NaN" \/ (x.v = 0 /\ x.s = ""))
      [] x.ty = "string" -> x.s # ""
      [] OTHER -> TRUE

\* A text with the character U+0000 in it (written ^@ here).
TextWithNul == "a^@b"
\* NewStringUTF(const char*): the characters of a C string, which ends at its
\* first zero byte (JS_ToCString writes U+0000 as a zero byte).
NewStringUTF(chars) == IF chars = TextWithNul THEN "a" ELSE chars

\* convertJsToJava: the host value, HostNull standing for a nullptr result.
convertJsToJava(kind, value) ==
    CASE kind = "String" ->
           IF value.ty \in {"null", "undefined"} THEN HostNull
           ELSE IF ~ToCString(value).ok THEN HostNull
           ELSE HostString(NewStringUTF(ToCString(value).s))
      [] kind = "Boolean" -> HostBox("Boolean", IF ToBool(value) THEN 1 ELSE 0)
      [] kind = "Int" ->
           IF value.ty = "symbol" THEN HostNull
           ELSE IF ToNumber(value).s = "NaN" THEN HostBox("Integer", 0)
           ELSE HostBox("Integer", ToNumber(value).v)
      [] kind = "Long" ->
           IF value.ty = "symbol" THEN HostNull
           ELSE IF ToNumber(value).s = "NaN" THEN HostBox("Long", 0)
           ELSE HostBox("Long", ToNumber(value).v)
      [] kind = "Double" ->
           IF value.ty = "symbol" THEN HostNull
           ELSE [cls |-> "Double", v |-> ToNumber(value).v, s |-> ToNumber(value).s]
      [] OTHER -> HostNull

\* The class of the object a host method of a return kind returns.
ClassOf(kind) ==
    CASE kind = "String" -> "String"
      [] kind = "Boolean" -> "Boolean"
      [] kind = "Int" -> "Integer"
      [] kind = "Long" -> "Long"
      [] kind = "Double" -> "Double"
      [] OTHER -> "null"
\* Whether convertJavaToJs can read value at kind: GetStringUTFChars and the
\* Call<Type>Method calls are defined on objects of the kind's class only.
ResultFits(kind, value) == kind = "Void" \/ value = HostNull \/ value.cls = ClassOf(kind)

\* convertJavaToJs.
ConvertNullAsNull(kind, value) ==
    CASE kind = "Void" -> JsUndefined
      [] value = HostNull -> JsNull
      [] kind = "String" -> JsStr(value.s)
      [] kind = "Boolean" -> JsBool(value.v = 1)
      [] kind \in {"Int", "Long"} -> JsInt(value.v)
      [] OTHER -> [ty |-> "number", v |-> value.v, s |-> value.s]
convertJavaToJs(kind, value) ==
    CASE kind = "String" -> IF value = HostNull THEN JsNull ELSE JsStr(value.s)
      [] kind = "Boolean" -> IF value = HostNull THEN JsBool(FALSE) ELSE JsBool(value.v = 1)
      [] kind = "Int" -> IF value = HostNull THEN JsInt(0) ELSE JsInt(value.v)
      [] kind = "Long" -> IF value = HostNull THEN JsInt(0) ELSE JsInt(value.v)
      [] kind = "Double" ->
           IF value = HostNull THEN JsInt(0)
           ELSE [ty |-> "number", v |-> value.v, s |-> value.s]
      [] OTHER -> JsUndefined

\* ---------------------------------------------------------------- inputs
ObjNames == {"A", "B"}
MethNames == {"f", "g"}

\* Arguments of a nativeRegister call: ptr is the jlong pointer (0 for a
\* destroyed bridge, 1 for the context), inst whether an instance is given.
RegInput(ptr, obj, meth, params, ret, inst) ==
    [ptr |-> ptr, obj |-> obj, meth |-> meth, params |-> params, ret |-> ret,
     inst |-> inst]
NoInput == RegInput(0, "", "", <<>>, "null", FALSE)

\* The registrations the threads of the concurrent specification make.
RegInputs ==
    {RegInput(1, "A", "f", <<"java.lang.String", "int">>, "int", TRUE),
     RegInput(1, "A", "g", <<>>, "void", FALSE),
     RegInput(1, "B", "f", <<"java.lang.Object">>, "void", TRUE),
     RegInput(1, "B", "g", <<"java.lang.String", "null">>, "void", FALSE)}

\* Argument lists of the script calls.
DispArgs == {<<>>, <<JsStr("7"), JsInt(2)>>, <<JsStr("7"), JsSymbol>>}

\* ---------------------------------------------------------------- state
VARIABLES
    mutex,          \* QuickJsContext::mutex: its holder, or Free
    bindings,       \* QuickJsContext::bindings: id -> MethodBinding
    nextBindingId,  \* QuickJsContext::nextBindingId
    globalProps,    \* the script global object: name -> object handle, 0 if undefined
    objects,        \* the script heap: handle -> (method name -> function magic, 0 if absent)
    refsLive,       \* the classes cached in QuickJsContext::refs are not yet released
    ctxLive,        \* the JSContext and JSRuntime are not yet freed
    deleted,        \* the QuickJsContext has been deleted
    tdpc,           \* position of the nativeDestroy call
    stack,          \* per thread: the calls it is inside (with their locals), innermost last
    liveRefs,       \* the JNI global references that exist
    badDeletes,     \* the global references DeleteGlobalRef was called on when they did not exist
    limit,          \* the bounds of the run: calls and depth
    ub,             \* the undefined behaviour a call has run into, if any
    nCalls,         \* per thread: number of calls it has made into the bridge so far
    assignOrder,    \* history: the identifiers in the order they were assigned
    android,        \* the build defines __ANDROID__
    attached        \* the threads that are attached to the JavaVM

vars == <<mutex, bindings, nextBindingId, globalProps, objects, refsLive, ctxLive,
          deleted, tdpc, stack, liveRefs, badDeletes, ub, nCalls, assignOrder, limit, android, attached>>

\* int nextBindingId = 1;
InitialBindingIdZero == 1 - 1
InitialBindingId == 1

EmptyObject == [m \in MethNames |-> 0]
NoUB == [t |-> "", op |-> "", why |-> ""]

InitBridge ==
    /\ mutex = Free
    /\ bindings = <<>>
    /\ nextBindingId = InitialBindingId
    /\ globalProps = [o \in ObjNames |-> 0]
    /\ objects = <<>>
    /\ refsLive = TRUE
    /\ ctxLive = TRUE
    /\ deleted = FALSE
    /\ tdpc = "idle"
    /\ stack = [t \in Threads |-> <<>>]
    /\ liveRefs = {}
    /\ badDeletes = {}
    /\ ub = NoUB
    /\ nCalls = [t \in Threads |-> 0]
    /\ assignOrder = <<>>
    /\ android = TRUE
    /\ attached = Threads

Init == InitBridge /\ limit = [calls |-> MaxCalls, depth |-> MaxDepth]
InitReentry == InitBridge /\ limit = [calls |-> MaxReentryCalls, depth |-> MaxReentryDepth]

\* ---------------------------------------------------------------- helpers
\* The serial number of a call: the thread that makes it and its number among
\* the calls of that thread.
Serial(t, i) == [t |-> t, i |-> i]
NoCall == Serial("", 0)
\* A JNI global reference: the one call n made for its method or instance.
Ref(n, k) == [n |-> n, k |-> k]
NullRef == [n |-> NoCall, k |-> "null"]
\* Number of calls made into the bridge so far.
RECURSIVE SumCalls(_, _)
SumCalls(f, S) == IF S = {} THEN 0
                  ELSE LET x == CHOOSE y \in S : TRUE IN f[x] + SumCalls(f, S \ {x})
TotalCalls == SumCalls(nCalls, Threads)
\* JNI local references a dispatch creates.
LocalRef(k, i) == [k |-> k, i |-> i]

\* No host method has come back yet.
NoOutcome == [kind |-> "", value |-> [cls |-> "null", v |-> 0, s |-> ""], msg |-> ""]

\* The locals of a call. op is "reg" for nativeRegister and "disp" for
\* methodDispatcher; n is the call's serial number.
NewFrame(op, n) ==
    [op |-> op, n |-> n, pc |-> "",
     \* nativeRegister
     in |-> NoInput, result |-> "pending", thrown |-> "", id |-> 0, kinds |-> <<>>, ret |-> "Void",
     method |-> NullRef, instance |-> NullRef, acquired |-> {}, obj |-> 0,
     \* methodDispatcher and invokeBinding
     magic |-> 0, args |-> <<>>, miss |-> FALSE, bptr |-> 0, js |-> JsUndefined, err |-> "",
     msg |-> "", invoked |-> FALSE, hostArgs |-> <<>>, made |-> {}, freed |-> <<>>,
     out |-> NoOutcome, pending |-> FALSE, converted |-> FALSE, env |-> ""]

Depth(t) == Len(stack[t])
Top(t) == stack[t][Len(stack[t])]
In(t, op, pc) == ub = NoUB /\ Depth(t) > 0 /\ Top(t).op = op /\ Top(t).pc = pc
\* A thread can enter the bridge when it is outside it, or when it runs a host
\* method that the dispatcher invoked (the host method re-enters the bridge).
CanCall(t) ==
    /\ ub = NoUB
    /\ Depth(t) = 0 \/ (Depth(t) < limit.depth /\ In(t, "disp", "host"))
Push(t, f) == [stack EXCEPT ![t] = Append(@, f)]
SetTop(t, f) == [stack EXCEPT ![t][Len(stack[t])] = f]
Frames == UNION {{stack[t][i] : i \in DOMAIN stack[t]} : t \in Threads}

\* std::unordered_map::emplace: an existing key keeps its value.
Emplace(map, id, b) == IF id \in DOMAIN map THEN map ELSE map @@ (id :> b)
Erase(map, id) == [k \in DOMAIN map \ {id} |-> map[k]]

\* DeleteGlobalRef on each reference of rs: nullptr is ignored, a reference
\* that exists stops existing, one that does not exist is a bad delete.
AfterDelete(live, rs) == live \ rs
BadDeletes(live, rs) == (rs \ {NullRef}) \ live

\* A call that touches the QuickJsContext after it was deleted, the JSContext
\* after it was freed, a cached class after it was released, or a
\* MethodBinding after it was destroyed has undefined behaviour: what was
\* touched is recorded, and nothing is said about what the program does next.
UB(t, why) ==
    /\ ub' = [t |-> t, op |-> Top(t).op, why |-> why]
    /\ UNCHANGED <<mutex, bindings, nextBindingId, globalProps, objects, refsLive,
                   ctxLive, deleted, tdpc, stack, liveRefs, badDeletes, nCalls,
                   assignOrder, limit, android, attached>>

\* A call returns to its caller: its locals are gone.
Return(t) ==
    /\ In(t, Top(t).op, "done")
    /\ stack' = [stack EXCEPT ![t] = SubSeq(@, 1, Len(@) - 1)]
    /\ UNCHANGED <<mutex, bindings, nextBindingId, globalProps, objects, refsLive,
                   ctxLive, deleted, tdpc, liveRefs, badDeletes, nCalls, assignOrder, ub, limit, android, attached>>

\* ---------------------------------------------------------------- nativeRegister
\* bindingId = context.nextBindingId++;
AssignIdNoIncrement(n) == [id |-> n, next |-> n]
AssignId(n) == [id |-> n, next |-> n + 1]

\* The part of nativeRegister before the registry is touched: the checks of
\* the pointer and the names, NewGlobalRef of method and instance, the
\* classification of the parameter and return descriptors. result is
\* "pending" when the call goes on; acquired are the global references made,
\* deletes the ones DeleteGlobalRef was called on.
PrologueRefsBeforeNames(live, n, in) ==
    LET m == Ref(n, "method")
        i == IF in.inst THEN Ref(n, "instance") ELSE NullRef
    IN  IF in.ptr = 0
        THEN [result |-> "Destroyed", kinds |-> <<>>, ret |-> "Void", method |-> NullRef,
              instance |-> NullRef, acquired |-> {}, deletes |-> {}]
        ELSE [result |-> "InvalidRegistration", kinds |-> <<>>, ret |-> "Void",
              method |-> m, instance |-> i, acquired |-> {m, i} \ {NullRef},
              deletes |-> {}]
RegisterPrologue(live, n, in) ==
    LET m == Ref(n, "method")
        i == IF in.inst THEN Ref(n, "instance") ELSE NullRef
        c == ClassifyAll(live, in.params)
        r == ReturnKindOf(live, in.ret)
        none == [result |-> "", kinds |-> <<>>, ret |-> "Void", method |-> NullRef,
                 instance |-> NullRef, acquired |-> {}, deletes |-> {}]
        made == [none EXCEPT !.method = m, !.instance = i, !.acquired = {m, i} \ {NullRef}]
    IN  IF in.ptr = 0 THEN [none EXCEPT !.result = "Destroyed"]
        ELSE IF in.obj = "" \/ in.meth = "" THEN [none EXCEPT !.result = "InvalidRegistration"]
        ELSE IF ~c.ok
             THEN [made EXCEPT !.result = "UnsupportedParameterType", !.deletes = {m, i}]
        ELSE IF r = "Unsupported"
             THEN [made EXCEPT !.result = "UnsupportedReturnType", !.deletes = {m, i}]
        ELSE [made EXCEPT !.result = "pending", !.kinds = c.kinds, !.ret = r]

\* The text of the QuickJsException nativeRegister throws on each failure.
Message(result, in) ==
    CASE result = "Destroyed" -> "QuickJs runtime has been destroyed"
      [] result = "InvalidRegistration" -> "Object or method name cannot be empty"
      [] result = "UnsupportedParameterType" ->
           "Unsupported parameter type for method " \o in.obj \o "." \o in.meth
      [] result = "UnsupportedReturnType" ->
           "Unsupported return type for method " \o in.obj \o "." \o in.meth
      [] result = "NamespaceCreationFailed" -> "Failed to create host object " \o in.obj
      [] result = "FunctionCreationFailed" ->
           "Failed to create native function for " \o in.obj \o "." \o in.meth
      [] result = "PropertyAttachFailed" ->
           "Failed to attach method " \o in.obj \o "." \o in.meth
      [] OTHER -> ""

\* The MethodBinding a registration stores.
NewBindingReturnAsParameter(f, id) ==
    [id |-> id, objectName |-> f.in.obj, methodName |-> f.in.meth,
     method |-> f.method, instance |-> f.instance,
     parameterKinds |-> <<f.ret>> \o f.kinds, returnKind |-> f.ret]
NewBinding(f, id) ==
    [id |-> id, objectName |-> f.in.obj, methodName |-> f.in.meth,
     method |-> f.method, instance |-> f.instance,
     parameterKinds |-> f.kinds, returnKind |-> f.ret]

\* Entry of nativeRegister up to the return type check.
RegisterStart(t, in) ==
    /\ t \in RegThreads
    /\ CanCall(t)
    /\ TotalCalls < limit.calls
    /\ IF in.ptr # 0 /\ deleted
       THEN \* context.refs of a deleted QuickJsContext is read
            /\ ub' = [t |-> t, op |-> "reg", why |-> "context"]
            /\ UNCHANGED <<mutex, bindings, nextBindingId, globalProps, objects, refsLive,
                           ctxLive, deleted, tdpc, stack, liveRefs, badDeletes, nCalls,
                           assignOrder, limit, android, attached>>
       ELSE LET n == Serial(t, nCalls[t] + 1)
                p == RegisterPrologue(refsLive, n, in)
                f == [NewFrame("reg", n) EXCEPT
                         !.in = in, !.result = p.result, !.thrown = Message(p.result, in),
                         !.kinds = p.kinds, !.ret = p.ret,
                         !.method = p.method, !.instance = p.instance,
                         !.acquired = p.acquired,
                         !.pc = IF p.result = "pending" THEN "assign_lock" ELSE "done"]
            IN  /\ stack' = Push(t, f)
                /\ liveRefs' = AfterDelete(liveRefs \cup p.acquired, p.deletes)
                /\ badDeletes' = badDeletes
                                   \cup BadDeletes(liveRefs \cup p.acquired, p.deletes)
                /\ nCalls' = [nCalls EXCEPT ![t] = @ + 1]
                /\ UNCHANGED <<mutex, bindings, nextBindingId, globalProps, objects,
                               refsLive, ctxLive, deleted, tdpc, assignOrder, ub, limit, android, attached>>

\* std::lock_guard<std::mutex> lock(context.mutex) before the identifier is assigned.
RegisterLock(t) ==
    /\ In(t, "reg", "assign_lock")
    /\ IF deleted THEN UB(t, "context")
       ELSE /\ mutex = Free
            /\ mutex' = t
            /\ stack' = SetTop(t, [Top(t) EXCEPT !.pc = "assign"])
            /\ UNCHANGED <<bindings, nextBindingId, globalProps, objects, refsLive,
                           ctxLive, deleted, tdpc, liveRefs, badDeletes, nCalls, assignOrder, ub, limit, android, attached>>

\* The critical section that assigns the identifier and stores the binding.
RegisterAssign(t) ==
    /\ In(t, "reg", "assign")
    /\ IF deleted THEN UB(t, "context")
       ELSE LET a == AssignId(nextBindingId) IN
            /\ nextBindingId' = a.next
            /\ bindings' = Emplace(bindings, a.id, NewBinding(Top(t), a.id))
            /\ assignOrder' = Append(assignOrder, a.id)
            /\ stack' = SetTop(t, [Top(t) EXCEPT !.id = a.id, !.pc = "ensure_get"])
            /\ mutex' = Free
            /\ UNCHANGED <<globalProps, objects, refsLive, ctxLive, deleted, tdpc,
                           liveRefs, badDeletes, nCalls, ub, limit, android, attached>>

\* ensureGlobalObject: JS_GetGlobalObject and JS_GetPropertyStr.
ExistingIgnored(props, name) == 0
ExistingObject(props, name) == props[name]
EnsureGet(t) ==
    /\ In(t, "reg", "ensure_get")
    /\ IF deleted THEN UB(t, "context")
       ELSE IF ~ctxLive THEN UB(t, "script")
       ELSE LET existing == ExistingObject(globalProps, Top(t).in.obj) IN
            /\ stack' = SetTop(t, [Top(t) EXCEPT !.obj = existing,
                                   !.pc = IF existing = 0 THEN "ensure_new" ELSE "attach"])
            /\ UNCHANGED <<mutex, bindings, nextBindingId, globalProps, objects, refsLive,
                           ctxLive, deleted, tdpc, liveRefs, badDeletes, nCalls, assignOrder, ub, limit, android, attached>>

\* ensureGlobalObject when the property was undefined or null: JS_NewObject and
\* JS_SetPropertyStr, each of which may fail.
EnsureNew(t, failNew, failSet) ==
    /\ In(t, "reg", "ensure_new")
    /\ IF ~ctxLive THEN UB(t, "script")
       ELSE /\ IF failNew \/ failSet
               THEN /\ stack' = SetTop(t, [Top(t) EXCEPT !.pc = "rollback_lock",
                                           !.result = "NamespaceCreationFailed"])
                    /\ UNCHANGED <<globalProps, objects, ub, limit, android, attached>>
               ELSE /\ objects' = Append(objects, EmptyObject)
                    /\ globalProps' = [globalProps EXCEPT ![Top(t).in.obj] = Len(objects) + 1]
                    /\ stack' = SetTop(t, [Top(t) EXCEPT !.obj = Len(objects) + 1,
                                           !.pc = "attach"])
            /\ UNCHANGED <<mutex, bindings, nextBindingId, refsLive, ctxLive, deleted,
                           tdpc, liveRefs, badDeletes, nCalls, assignOrder, ub, limit, android, attached>>

\* JS_NewCFunctionMagic and JS_DefinePropertyValueStr, each of which may fail.
Attach(t, failFn, failDef) ==
    /\ In(t, "reg", "attach")
    /\ IF deleted THEN UB(t, "context")
       ELSE IF ~ctxLive THEN UB(t, "script")
       ELSE /\ IF failFn
               THEN /\ stack' = SetTop(t, [Top(t) EXCEPT !.pc = "rollback_lock",
                                           !.result = "FunctionCreationFailed"])
                    /\ UNCHANGED objects
               ELSE IF failDef
               THEN /\ stack' = SetTop(t, [Top(t) EXCEPT !.pc = "rollback_lock",
                                           !.result = "PropertyAttachFailed"])
                    /\ UNCHANGED objects
               ELSE /\ objects' = [objects EXCEPT ![Top(t).obj][Top(t).in.meth] = Top(t).id]
                    /\ stack' = SetTop(t, [Top(t) EXCEPT !.pc = "done", !.result = "ok",
                                           !.obj = 0])
            /\ UNCHANGED <<mutex, bindings, nextBindingId, globalProps, refsLive, ctxLive,
                           deleted, tdpc, liveRefs, badDeletes, nCalls, assignOrder, ub, limit, android, attached>>

\* std::lock_guard<std::mutex> lock(context.mutex) of a failure path.
RollbackLock(t) ==
    /\ In(t, "reg", "rollback_lock")
    /\ IF deleted THEN UB(t, "context")
       ELSE /\ mutex = Free
            /\ mutex' = t
            /\ stack' = SetTop(t, [Top(t) EXCEPT !.pc = "rollback"])
            /\ UNCHANGED <<bindings, nextBindingId, globalProps, objects, refsLive,
                           ctxLive, deleted, tdpc, liveRefs, badDeletes, nCalls, assignOrder, ub, limit, android, attached>>

\* The registry after the failure path of the call that was given id.
RollbackEraseAll(map, id) == <<>>
RollbackErase(map, id) == IF id \in DOMAIN map THEN Erase(map, id) ELSE map

\* The references the failure path calls DeleteGlobalRef on: those of the
\* binding it finds under id.
RollbackDeletesNothing(map, id) == {}
RollbackDeletes(map, id) ==
    IF id \in DOMAIN map THEN {map[id].method, map[id].instance} ELSE {}

\* The failure path: find the binding, DeleteGlobalRef its references, erase
\* it, throw.
Rollback(t) ==
    /\ In(t, "reg", "rollback")
    /\ IF deleted THEN UB(t, "context")
       ELSE LET dels == RollbackDeletes(bindings, Top(t).id) IN
            /\ bindings' = RollbackErase(bindings, Top(t).id)
            /\ liveRefs' = AfterDelete(liveRefs, dels)
            /\ badDeletes' = badDeletes \cup BadDeletes(liveRefs, dels)
            /\ mutex' = Free
            /\ stack' = SetTop(t, [Top(t) EXCEPT !.pc = "done", !.obj = 0,
                                   !.thrown = Message(Top(t).result, Top(t).in)])
            /\ UNCHANGED <<nextBindingId, globalProps, objects, refsLive, ctxLive,
                           deleted, tdpc, nCalls, assignOrder, ub, limit, android, attached>>

\* ---------------------------------------------------------------- nativeDestroy
\* Entry of nativeDestroy and its lock_guard; a zero pointer returns at once.
DestroyLock(ptr) ==
    /\ ub = NoUB
    /\ tdpc = "idle"
    /\ IF ptr = 0 THEN UNCHANGED <<mutex, tdpc>>
       ELSE /\ mutex = Free
            /\ mutex' = TeardownThread
            /\ tdpc' = "locked"
    /\ UNCHANGED <<bindings, nextBindingId, globalProps, objects, refsLive, ctxLive,
                   deleted, stack, liveRefs, badDeletes, nCalls, assignOrder, ub, limit, android, attached>>

\* The references the loop of nativeDestroy calls DeleteGlobalRef on.
DestroyDeletes(map) ==
    UNION {{map[k].method, map[k].instance} : k \in DOMAIN map} \ {NullRef}

\* The holder of the mutex when the block of lines 601-615 is left.
MutexHeldAfterReleaseAll == TeardownThread
MutexAfterReleaseAll == Free

\* The loop that deletes every binding's global references, and bindings.clear().
DestroyReleaseAll ==
    /\ ub = NoUB
    /\ tdpc = "locked"
    /\ liveRefs' = AfterDelete(liveRefs, DestroyDeletes(bindings))
    /\ badDeletes' = badDeletes \cup BadDeletes(liveRefs, DestroyDeletes(bindings))
    /\ bindings' = <<>>
    /\ mutex' = MutexAfterReleaseAll
    /\ tdpc' = "unlocked"
    /\ UNCHANGED <<nextBindingId, globalProps, objects, refsLive, ctxLive, deleted,
                   stack, nCalls, assignOrder, ub, limit, android, attached>>

\* releaseJavaReferences(env, quickContext->refs).
DestroyJavaRefs ==
    /\ ub = NoUB
    /\ tdpc = "unlocked"
    /\ refsLive' = FALSE
    /\ tdpc' = "refs_released"
    /\ UNCHANGED <<mutex, bindings, nextBindingId, globalProps, objects, ctxLive,
                   deleted, stack, liveRefs, badDeletes, nCalls, assignOrder, ub, limit, android, attached>>

\* JS_FreeContext(quickContext->context).
DestroyFreeContext ==
    /\ ub = NoUB
    /\ tdpc = "refs_released"
    /\ ctxLive' = FALSE
    /\ tdpc' = "context_freed"
    /\ UNCHANGED <<mutex, bindings, nextBindingId, globalProps, objects, refsLive,
                   deleted, stack, liveRefs, badDeletes, nCalls, assignOrder, ub, limit, android, attached>>

\* JS_FreeRuntime(quickContext->runtime): the runtime is freed in the states
\* "engine_freed" and "returned" of the teardown.
DestroyFreeRuntime ==
    /\ ub = NoUB
    /\ tdpc = "context_freed"
    /\ tdpc' = "engine_freed"
    /\ UNCHANGED <<mutex, bindings, nextBindingId, globalProps, objects, refsLive,
                   ctxLive, deleted, stack, liveRefs, badDeletes, nCalls, assignOrder,
                   ub, limit, android, attached>>

\* delete quickContext: the map's destructor destroys the bindings that are
\* left, without deleting their global references.
DestroyDelete ==
    /\ ub = NoUB
    /\ tdpc = "engine_freed"
    /\ deleted' = TRUE
    /\ bindings' = <<>>
    /\ tdpc' = "returned"
    /\ UNCHANGED <<mutex, nextBindingId, globalProps, objects, refsLive, ctxLive,
                   stack, liveRefs, badDeletes, nCalls, assignOrder, ub, limit, android, attached>>

\* ---------------------------------------------------------------- dispatch
\* The argument loop of invokeBinding: position index takes argv[index] when
\* index < argc and JS_UNDEFINED otherwise; a nullptr result at a kind other
\* than String stops the loop. acc are the localArgs pushed so far.
\* The script argument of a parameter position: JS_UNDEFINED past argc.
ArgumentAtStrict(args, index) == IF index <= Len(args) THEN args[index] ELSE JsSymbol
ArgumentAt(args, index) == IF index <= Len(args) THEN args[index] ELSE JsUndefined

RECURSIVE ConvertLoopWith(_, _, _, _)
ConvertLoopWith(kinds, args, index, acc) ==
    IF index > Len(kinds) THEN [ok |-> TRUE, localArgs |-> acc]
    ELSE LET argument == ArgumentAt(args, index)
             converted == convertJsToJava(kinds[index], argument)
         IN  IF converted = HostNull /\ kinds[index] # "String"
             THEN [ok |-> FALSE, localArgs |-> acc]
             ELSE ConvertLoopWith(kinds, args, index + 1, Append(acc, converted))

ConvertArguments(kinds, args) == ConvertLoopWith(kinds, args, 1, <<>>)

\* The local references that hold the converted arguments (a nullptr holds none).
ArgRefs(localArgs) ==
    {LocalRef("arg", i) : i \in {j \in DOMAIN localArgs : localArgs[j] # HostNull}}

\* The references of a set in the order of their positions.
RECURSIVE SetToSeq(_)
SetToSeq(S) ==
    IF S = {} THEN <<>>
    ELSE LET x == CHOOSE y \in S : \A z \in S : y.i <= z.i
         IN  <<x>> \o SetToSeq(S \ {x})

\* The DeleteLocalRef calls of the conversion failure path.
FailureCleanupLeaksArgs(hasArray, localArgs) ==
    IF hasArray THEN <<LocalRef("array", 0)>> ELSE <<>>
FailureCleanup(hasArray, localArgs) ==
    (IF hasArray THEN <<LocalRef("array", 0)>> ELSE <<>>) \o SetToSeq(ArgRefs(localArgs))

\* The functions a script can call: the magics of the function properties of
\* the objects that are properties of the global object.
ReachableMagics ==
    {objects[globalProps[o]][m] :
        o \in {x \in ObjNames : globalProps[x] # 0}, m \in MethNames} \ {0}

\* The script calls a bound function: the engine enters methodDispatcher with
\* the function's magic and the call's arguments.
DispatchStart(t, magic, args) ==
    /\ t = ScriptThread
    /\ CanCall(t)
    /\ TotalCalls < limit.calls
    /\ ctxLive
    /\ magic \in ReachableMagics
    /\ stack' = Push(t, [NewFrame("disp", Serial(t, nCalls[t] + 1)) EXCEPT
                            !.magic = magic, !.args = args, !.pc = "lookup_lock"])
    /\ nCalls' = [nCalls EXCEPT ![t] = @ + 1]
    /\ UNCHANGED <<mutex, bindings, nextBindingId, globalProps, objects, refsLive,
                   ctxLive, deleted, tdpc, liveRefs, badDeletes, assignOrder, ub, limit, android, attached>>

\* getContext(ctx): the opaque pointer of the JSContext, which nativeCreate
\* sets to the QuickJsContext (line 587) and nothing sets again.
ContextOpaque == "QuickJsContext"

\* getContext(ctx) and std::lock_guard<std::mutex> lock(quickContext->mutex).
DispatchLock(t) ==
    /\ In(t, "disp", "lookup_lock")
    /\ IF ContextOpaque = "nullptr" THEN
            /\ stack' = SetTop(t, [Top(t) EXCEPT !.pc = "done", !.js = JsException,
                                                  !.err = "ContextMissing",
                                                  !.msg = "QuickJs context missing"])
            /\ UNCHANGED <<mutex, bindings, nextBindingId, globalProps, objects, refsLive,
                           ctxLive, deleted, tdpc, liveRefs, badDeletes, nCalls, assignOrder,
                           ub, limit, android, attached>>
       ELSE IF deleted THEN UB(t, "context")
       ELSE /\ mutex = Free
            /\ mutex' = t
            /\ stack' = SetTop(t, [Top(t) EXCEPT !.pc = "lookup"])
            /\ UNCHANGED <<bindings, nextBindingId, globalProps, objects, refsLive,
                           ctxLive, deleted, tdpc, liveRefs, badDeletes, nCalls, assignOrder, ub, limit, android, attached>>

\* The holder of the mutex when the lookup block of methodDispatcher is left.
MutexHeldAfterLookup(t) == t
MutexAfterLookup(t) == Free

\* What methodDispatcher makes of bindings.find(magic): the binding's address
\* (named by its identifier), or 0 for nullptr.
LookupIgnoresMiss(map, magic) == magic
Lookup(map, magic) == IF magic \in DOMAIN map THEN magic ELSE 0

\* A dispatch ends with a script exception.
Throw(f, err, msg) == [f EXCEPT !.pc = "done", !.js = JsException, !.err = err, !.msg = msg]

\* bindings.find(magic) under the lock, and the nullptr check after it.
DispatchLookup(t) ==
    /\ In(t, "disp", "lookup")
    /\ IF deleted THEN UB(t, "context")
       ELSE LET b == Lookup(bindings, Top(t).magic) IN
            /\ mutex' = MutexAfterLookup(t)
            /\ stack' = SetTop(t,
                  [(IF b = 0
                    THEN Throw(Top(t), "BindingNotFound", "Host binding not found")
                    ELSE [Top(t) EXCEPT !.pc = "invoke", !.bptr = b])
                   EXCEPT !.miss = Top(t).magic \notin DOMAIN bindings])
            /\ UNCHANGED <<bindings, nextBindingId, globalProps, objects, refsLive,
                           ctxLive, deleted, tdpc, liveRefs, badDeletes, nCalls, assignOrder, ub, limit, android, attached>>

\* JavaVM::GetEnv on thread t: JNI_EDETACHED for a thread that is not attached,
\* else JNI_OK when the JavaVM supports kRequiredJniVersion, else JNI_EVERSION.
GetEnv(t, versionOk) ==
    IF t \notin attached THEN "JNI_EDETACHED"
    ELSE IF versionOk THEN "JNI_OK" ELSE "JNI_EVERSION"

\* requireEnv on thread t: how the environment was obtained ("existing" from
\* GetEnv, "attached" from AttachCurrentThread, "null" for nullptr), and the
\* threads attached afterwards. QuickJsContext::vm is never null: nativeCreate
\* returns 0 when GetJavaVM fails.
RequireEnvWithoutAttach(t, versionOk, attachOk) ==
    [env |-> IF GetEnv(t, versionOk) = "JNI_EVERSION" THEN "null" ELSE "existing",
     attached |-> attached]
requireEnv(t, versionOk, attachOk) ==
    LET status == GetEnv(t, versionOk) IN
    IF status = "JNI_OK" THEN [env |-> "existing", attached |-> attached]
    ELSE IF status = "JNI_EDETACHED" /\ android /\ attachOk
    THEN [env |-> "attached", attached |-> attached \cup {t}]
    ELSE [env |-> "null", attached |-> attached]

\* The test `env == nullptr` of invokeBinding, negated.
EnvAssumed(env) == TRUE
EnvObtained(env) == env # "null"

\* invokeBinding up to CallObjectMethod: requireEnv, NewObjectArray, the
\* argument loop, and the call of Method.invoke through binding->method.
DispatchInvoke(t, versionOk, attachOk, arrayOk) ==
    /\ In(t, "disp", "invoke")
    /\ LET d == [Top(t) EXCEPT !.env = requireEnv(t, versionOk, attachOk).env]
           envOk == EnvObtained(d.env)
       IN
       IF deleted THEN UB(t, "context")
       ELSE IF ~envOk THEN
           /\ stack' = SetTop(t, Throw(d, "EnvironmentUnavailable",
                                       "Failed to obtain JNI environment"))
           /\ attached' = requireEnv(t, versionOk, attachOk).attached
           /\ UNCHANGED <<mutex, bindings, nextBindingId, globalProps, objects, refsLive,
                          ctxLive, deleted, tdpc, liveRefs, badDeletes, nCalls, assignOrder, ub, limit, android>>
       ELSE IF d.bptr \notin DOMAIN bindings THEN UB(t, "binding")
       ELSE IF ~refsLive THEN UB(t, "refs")
       ELSE IF ~ctxLive THEN UB(t, "script")
       ELSE LET b == bindings[d.bptr]
                hasArray == Len(b.parameterKinds) > 0
                c == ConvertArguments(b.parameterKinds, d.args)
                made == (IF hasArray THEN {LocalRef("array", 0)} ELSE {})
                          \cup ArgRefs(c.localArgs)
            IN  /\ stack' = SetTop(t,
                      IF hasArray /\ ~arrayOk
                      THEN \* NewObjectArray left an OutOfMemoryError pending
                           [Throw(d, "ArrayAllocationFailed",
                                  "Unable to allocate argument array")
                              EXCEPT !.pending = TRUE]
                      ELSE IF ~c.ok
                      THEN [Throw(d, "ArgumentConversionError",
                                  "Unable to convert argument for method "
                                     \o b.objectName \o "." \o b.methodName)
                              EXCEPT !.made = made,
                                     !.freed = FailureCleanup(hasArray, c.localArgs)]
                      ELSE [d EXCEPT !.pc = "host", !.invoked = TRUE,
                                     !.hostArgs = c.localArgs, !.made = made])
                /\ attached' = requireEnv(t, versionOk, attachOk).attached
                /\ UNCHANGED <<mutex, bindings, nextBindingId, globalProps, objects,
                               refsLive, ctxLive, deleted, tdpc, liveRefs, badDeletes,
                               nCalls, assignOrder, ub, limit, android>>

\* What the host method does: it returns a value (nullptr for a void method),
\* or throws; msg is what getMessage() gives ("null" for a null message,
\* "throws" when getMessage itself throws).
HostReturns(v) == [kind |-> "return", value |-> v, msg |-> ""]
HostThrows(m) == [kind |-> "throw", value |-> HostNull, msg |-> m]
\* A throwable is known by what its getMessage does: it returns a text
\* (possibly empty), returns null ("null"), or raises itself ("throws").
HostOutcomes ==
    {HostReturns(HostNull), HostReturns(HostBox("Integer", 5)), HostThrows("boom"),
     HostThrows(""), HostThrows("null"), HostThrows("throws")}

\* describeThrowable: the text it returns.
DescribeWithoutFallback(m) == m
describeThrowable(m) ==
    IF m \in {"throws", "null", ""} THEN "Host method threw an exception" ELSE m
\* describeThrowable: the local references it makes and deletes (getMessage
\* returns no reference when it returns null or raises).
MessageRefs(m) == IF m \in {"throws", "null"} THEN <<>> ELSE <<LocalRef("message", 0)>>
\* Whether a host exception is pending when invokeBinding returns on its
\* exception path: ExceptionClear follows ExceptionOccurred, and follows a
\* getMessage that raised.
PendingAfterDescribe(m) == FALSE

\* The DeleteLocalRef calls that follow CallObjectMethod: every non-null
\* converted argument, then the argument array.
InvokeCleanupKeepsArray(hostArgs, hasArray) == SetToSeq(ArgRefs(hostArgs))
InvokeCleanup(hostArgs, hasArray) ==
    SetToSeq(ArgRefs(hostArgs)) \o (IF hasArray THEN <<LocalRef("array", 0)>> ELSE <<>>)
\* The DeleteLocalRef of the invocation result.
ResultCleanup(value) == IF value # HostNull THEN <<LocalRef("result", 0)>> ELSE <<>>

\* invokeBinding after CallObjectMethod has returned: the local references of
\* the arguments are deleted, a pending exception becomes a script error,
\* otherwise the result is converted according to binding->returnKind.
HostReturn(t, out) ==
    /\ In(t, "disp", "host")
    /\ LET d == Top(t)
           cleanup == InvokeCleanup(d.hostArgs, LocalRef("array", 0) \in d.made)
           hasMsg == MessageRefs(out.msg) # <<>>
       IN  IF deleted THEN UB(t, "context")
           ELSE IF out.kind = "throw" THEN
               /\ stack' = SetTop(t,
                     [Throw(d, "HostInvocationError", describeThrowable(out.msg)) EXCEPT
                         !.out = out,
                         !.pending = PendingAfterDescribe(out.msg),
                         !.made = @ \cup {LocalRef("throwable", 0)}
                                    \cup (IF hasMsg THEN {LocalRef("message", 0)} ELSE {}),
                         !.freed = cleanup \o MessageRefs(out.msg)
                                    \o <<LocalRef("throwable", 0)>>])
               /\ UNCHANGED <<mutex, bindings, nextBindingId, globalProps, objects,
                              refsLive, ctxLive, deleted, tdpc, liveRefs, badDeletes,
                              nCalls, assignOrder, ub, limit, android, attached>>
           ELSE IF d.bptr \notin DOMAIN bindings THEN UB(t, "binding")
           ELSE IF ~ctxLive THEN UB(t, "script")
           ELSE IF ~ResultFits(bindings[d.bptr].returnKind, out.value) THEN UB(t, "result")
           ELSE LET b == bindings[d.bptr] IN
               /\ stack' = SetTop(t,
                     [d EXCEPT !.pc = "done",
                               !.out = out,
                               !.converted = b.returnKind # "Void",
                               !.js = IF b.returnKind # "Void"
                                      THEN convertJavaToJs(b.returnKind, out.value)
                                      ELSE JsUndefined,
                               !.made = @ \cup (IF out.value # HostNull
                                                THEN {LocalRef("result", 0)} ELSE {}),
                               !.freed = cleanup \o ResultCleanup(out.value)])
               /\ UNCHANGED <<mutex, bindings, nextBindingId, globalProps, objects,
                              refsLive, ctxLive, deleted, tdpc, liveRefs, badDeletes,
                              nCalls, assignOrder, ub, limit, android, attached>>

\* ---------------------------------------------------------------- specification
\* The magics a script call can carry.
Magics == 1..(MaxCalls + MaxReentryCalls)

Next ==
    \/ \E t \in Threads, in \in RegInputs : RegisterStart(t, in)
    \/ \E t \in Threads : RegisterLock(t)
    \/ \E t \in Threads : RegisterAssign(t)
    \/ \E t \in Threads : EnsureGet(t)
    \/ \E t \in Threads, failNew \in BOOLEAN, failSet \in BOOLEAN : EnsureNew(t, failNew, failSet)
    \/ \E t \in Threads, failFn \in BOOLEAN, failDef \in BOOLEAN : Attach(t, failFn, failDef)
    \/ \E t \in Threads : RollbackLock(t)
    \/ \E t \in Threads : Rollback(t)
    \/ \E t \in Threads, magic \in Magics, args \in DispArgs : DispatchStart(t, magic, args)
    \/ \E t \in Threads : DispatchLock(t)
    \/ \E t \in Threads : DispatchLookup(t)
    \/ \E t \in Threads, versionOk \in BOOLEAN, attachOk \in BOOLEAN, arrayOk \in BOOLEAN : DispatchInvoke(t, versionOk, attachOk, arrayOk)
    \/ \E t \in Threads, out \in HostOutcomes : HostReturn(t, out)
    \/ \E t \in Threads : Return(t)
    \/ \E ptr \in {0, 1} : DestroyLock(ptr)
    \/ DestroyReleaseAll
    \/ DestroyJavaRefs
    \/ DestroyFreeContext
    \/ DestroyFreeRuntime
    \/ DestroyDelete

Spec == Init /\ [][Next]_vars

\* The bridge without nativeDestroy: registrations and dispatches of two
\* threads, the script thread re-entering the bridge from host methods.
NextReentry ==
    \/ \E t \in Threads, in \in RegInputs : RegisterStart(t, in)
    \/ \E t \in Threads : RegisterLock(t)
    \/ \E t \in Threads : RegisterAssign(t)
    \/ \E t \in Threads : EnsureGet(t)
    \/ \E t \in Threads, failNew \in BOOLEAN, failSet \in BOOLEAN : EnsureNew(t, failNew, failSet)
    \/ \E t \in Threads, failFn \in BOOLEAN, failDef \in BOOLEAN : Attach(t, failFn, failDef)
    \/ \E t \in Threads : RollbackLock(t)
    \/ \E t \in Threads : Rollback(t)
    \/ \E t \in Threads, magic \in Magics, args \in DispArgs : DispatchStart(t, magic, args)
    \/ \E t \in Threads : DispatchLock(t)
    \/ \E t \in Threads : DispatchLookup(t)
    \/ \E t \in Threads, versionOk \in BOOLEAN, attachOk \in BOOLEAN, arrayOk \in BOOLEAN : DispatchInvoke(t, versionOk, attachOk, arrayOk)
    \/ \E t \in Threads, out \in HostOutcomes : HostReturn(t, out)
    \/ \E t \in Threads : Return(t)

SpecReentry == InitReentry /\ [][NextReentry]_vars

\* Dispatches of one bound function, for every declaration of up to
\* MaxParams parameters and every call with up to MaxParams arguments. The
\* initial state is the bridge after nativeRegister(A.f) returned OK.
ParamKinds == {"String", "Boolean", "Int", "Long", "Double"}
SeqsUpTo(S, n) == UNION {[1..k -> S] : k \in 0..n}
KindSeqs == SeqsUpTo(ParamKinds, MaxParams)
ArgValues == {JsStr("7"), JsInt(2), JsSymbol}
ArgSeqs == SeqsUpTo(ArgValues, MaxParams)
FirstCall == Serial("h1", 1)
RegisteredBinding(kinds, ret) ==
    [id |-> InitialBindingId, objectName |-> "A", methodName |-> "f",
     method |-> Ref(FirstCall, "method"), instance |-> Ref(FirstCall, "instance"),
     parameterKinds |-> kinds, returnKind |-> ret]
InitDispatch ==
    /\ \E kinds \in KindSeqs, ret \in {"Void", "Int"} :
          bindings = (InitialBindingId :> RegisteredBinding(kinds, ret))
    /\ mutex = Free
    /\ nextBindingId = InitialBindingId + 1
    /\ globalProps = [o \in ObjNames |-> IF o = "A" THEN 1 ELSE 0]
    /\ objects = <<[EmptyObject EXCEPT !["f"] = InitialBindingId]>>
    /\ refsLive = TRUE /\ ctxLive = TRUE /\ deleted = FALSE
    /\ tdpc = "idle"
    /\ stack = [t \in Threads |-> <<>>]
    /\ liveRefs = {Ref(FirstCall, "method"), Ref(FirstCall, "instance")}
    /\ badDeletes = {}
    /\ ub = NoUB
    /\ nCalls = [t \in Threads |-> IF t = "h1" THEN 1 ELSE 0]
    /\ assignOrder = <<InitialBindingId>>
    /\ limit = [calls |-> 1 + MaxDispatchCalls, depth |-> 1]
    /\ android \in BOOLEAN
    /\ attached \in {Threads, Threads \ {ScriptThread}}
NextDispatch ==
    \/ \E t \in Threads, magic \in Magics, args \in ArgSeqs : DispatchStart(t, magic, args)
    \/ \E t \in Threads : DispatchLock(t)
    \/ \E t \in Threads : DispatchLookup(t)
    \/ \E t \in Threads, versionOk \in BOOLEAN, attachOk \in BOOLEAN, arrayOk \in BOOLEAN :
          DispatchInvoke(t, versionOk, attachOk, arrayOk)
    \/ \E t \in Threads, out \in HostOutcomes : HostReturn(t, out)
    \/ \E t \in Threads : Return(t)
SpecDispatch == InitDispatch /\ [][NextDispatch]_vars

\* Dispatches of one bound function without parameters, for every return kind
\* and every host result. The initial state is the bridge after
\* nativeRegister(A.f) returned OK.
ReturnKinds == ParamKinds \cup {"Void"}
ReturnOutcomes ==
    {HostReturns(HostNull), HostReturns(HostString("7")), HostReturns(HostString("")),
     HostReturns(HostBox("Boolean", 1)), HostReturns(HostBox("Boolean", 0)),
     HostReturns(HostBox("Integer", 5)), HostReturns(HostBox("Integer", 0 - 5)),
     HostReturns(HostBox("Long", 5)), HostReturns(HostBox("Double", 5)),
     HostReturns([cls |-> "Double", v |-> 2, s |-> ".5"]),
     HostReturns([cls |-> "Double", v |-> 0, s |-> "NaN"]), HostThrows("boom")}
InitReturn ==
    /\ \E ret \in ReturnKinds :
          bindings = (InitialBindingId :> RegisteredBinding(<<>>, ret))
    /\ mutex = Free
    /\ nextBindingId = InitialBindingId + 1
    /\ globalProps = [o \in ObjNames |-> IF o = "A" THEN 1 ELSE 0]
    /\ objects = <<[EmptyObject EXCEPT !["f"] = InitialBindingId]>>
    /\ refsLive = TRUE /\ ctxLive = TRUE /\ deleted = FALSE
    /\ tdpc = "idle"
    /\ stack = [t \in Threads |-> <<>>]
    /\ liveRefs = {Ref(FirstCall, "method"), Ref(FirstCall, "instance")}
    /\ badDeletes = {}
    /\ ub = NoUB
    /\ nCalls = [t \in Threads |-> IF t = "h1" THEN 1 ELSE 0]
    /\ assignOrder = <<InitialBindingId>>
    /\ limit = [calls |-> 1 + MaxDispatchCalls, depth |-> 1]
    /\ android = TRUE
    /\ attached = Threads
NextReturn ==
    \/ \E t \in Threads, magic \in Magics, args \in {<<>>, <<JsInt(2)>>} :
          DispatchStart(t, magic, args)
    \/ \E t \in Threads : DispatchLock(t)
    \/ \E t \in Threads : DispatchLookup(t)
    \/ \E t \in Threads, versionOk \in BOOLEAN, attachOk \in BOOLEAN, arrayOk \in BOOLEAN :
          DispatchInvoke(t, versionOk, attachOk, arrayOk)
    \/ \E t \in Threads, out \in ReturnOutcomes : HostReturn(t, out)
    \/ \E t \in Threads : Return(t)
SpecReturn == InitReturn /\ [][NextReturn]_vars

\* Registrations with every combination of a zero or live pointer, empty or
\* non-empty names, supported or unsupported descriptors, run against
\* nativeDestroy.
ParamLists == {<<>>, <<"java.lang.Object">>}
ReturnDescriptors == {"null", "void", "java.lang.String", "java.lang.Object"}
AllRegInputs ==
    {RegInput(ptr, obj, meth, params, ret, TRUE) :
        ptr \in {0, 1}, obj \in {"", "A"}, meth \in {"", "f"},
        params \in ParamLists, ret \in ReturnDescriptors}
InitRegister == InitBridge /\ limit = [calls |-> MaxRegisterCalls, depth |-> 1]
NextRegister ==
    \/ \E t \in Threads, in \in AllRegInputs : RegisterStart(t, in)
    \/ \E t \in Threads : RegisterLock(t)
    \/ \E t \in Threads : RegisterAssign(t)
    \/ \E t \in Threads : EnsureGet(t)
    \/ \E t \in Threads, failNew \in BOOLEAN, failSet \in BOOLEAN : EnsureNew(t, failNew, failSet)
    \/ \E t \in Threads, failFn \in BOOLEAN, failDef \in BOOLEAN : Attach(t, failFn, failDef)
    \/ \E t \in Threads : RollbackLock(t)
    \/ \E t \in Threads : Rollback(t)
    \/ \E t \in Threads : Return(t)
    \/ \E ptr \in {0, 1} : DestroyLock(ptr)
    \/ DestroyReleaseAll
    \/ DestroyJavaRefs
    \/ DestroyFreeContext
    \/ DestroyFreeRuntime
    \/ DestroyDelete
SpecRegister == InitRegister /\ [][NextRegister]_vars

\* The two converters applied one after the other to a script value v of
\* kind K: convertJsToJava(K, v), then convertJavaToJs(K, .) on its result.
MaxInt32 == 2147483647
MinInt32 == (0 - MaxInt32) - 1
IntValues == (0 - MaxNumber..MaxNumber) \cup {MinInt32, MaxInt32}
ValuesOf(kind) ==
    CASE kind = "String" ->
           {JsNull, JsStr(""), JsStr("7"), JsStr("true"), JsStr("NaN"), JsStr(TextWithNul)}
      [] kind = "Boolean" -> {JsBool(TRUE), JsBool(FALSE)}
      [] kind = "Double" ->
           {JsInt(n) : n \in IntValues} \cup {JsHalf(n) : n \in 0..MaxNumber}
              \cup {JsNaN, JsInfinity}
      [] OTHER -> {JsInt(n) : n \in IntValues}
InitConvert ==
    /\ mutex = Free
    /\ bindings = <<>>
    /\ nextBindingId = InitialBindingId
    /\ globalProps = [o \in ObjNames |-> 0]
    /\ objects = <<>>
    /\ refsLive = TRUE /\ ctxLive = TRUE /\ deleted = FALSE
    /\ tdpc = "idle"
    /\ \E kind \in ParamKinds : \E v \in ValuesOf(kind) :
          stack = [t \in Threads |->
                     IF t = ScriptThread
                     THEN <<[NewFrame("conv", Serial(t, 1)) EXCEPT
                               !.kinds = <<kind>>, !.args = <<v>>, !.pc = "to_host"]>>
                     ELSE <<>>]
    /\ liveRefs = {}
    /\ badDeletes = {}
    /\ ub = NoUB
    /\ nCalls = [t \in Threads |-> 0]
    /\ assignOrder = <<>>
    /\ android = TRUE
    /\ attached = Threads
    /\ limit = [calls |-> 0, depth |-> 0]
ConvertToHost(t) ==
    /\ In(t, "conv", "to_host")
    /\ stack' = SetTop(t, [Top(t) EXCEPT
                              !.hostArgs = <<convertJsToJava(Top(t).kinds[1], Top(t).args[1])>>,
                              !.pc = "to_script"])
    /\ UNCHANGED <<mutex, bindings, nextBindingId, globalProps, objects, refsLive, ctxLive,
                   deleted, tdpc, liveRefs, badDeletes, nCalls, assignOrder, ub, limit, android, attached>>
ConvertToScript(t) ==
    /\ In(t, "conv", "to_script")
    /\ stack' = SetTop(t, [Top(t) EXCEPT
                              !.js = convertJavaToJs(Top(t).kinds[1], Top(t).hostArgs[1]),
                              !.pc = "done"])
    /\ UNCHANGED <<mutex, bindings, nextBindingId, globalProps, objects, refsLive, ctxLive,
                   deleted, tdpc, liveRefs, badDeletes, nCalls, assignOrder, ub, limit, android, attached>>
NextConvert ==
    \/ \E t \in Threads : ConvertToHost(t)
    \/ \E t \in Threads : ConvertToScript(t)
SpecConvert == InitConvert /\ [][NextConvert]_vars

\* ---------------------------------------------------------------- fairness
\* The next step of a call that thread t is inside. Starting a call is no part
\* of it: no thread is obliged to call the bridge. HostReturn is part of it:
\* the host method that a dispatch invoked returns.
CallStep(t) ==
    \/ RegisterLock(t)
    \/ RegisterAssign(t)
    \/ EnsureGet(t)
    \/ \E failNew \in BOOLEAN, failSet \in BOOLEAN : EnsureNew(t, failNew, failSet)
    \/ \E failFn \in BOOLEAN, failDef \in BOOLEAN : Attach(t, failFn, failDef)
    \/ RollbackLock(t)
    \/ Rollback(t)
    \/ DispatchLock(t)
    \/ DispatchLookup(t)
    \/ \E versionOk \in BOOLEAN, attachOk \in BOOLEAN, arrayOk \in BOOLEAN :
          DispatchInvoke(t, versionOk, attachOk, arrayOk)
    \/ \E out \in HostOutcomes : HostReturn(t, out)
    \/ Return(t)
\* The next step of a nativeDestroy call that holds the mutex or is past it.
TeardownStep ==
    \/ DestroyReleaseAll
    \/ DestroyJavaRefs
    \/ DestroyFreeContext
    \/ DestroyFreeRuntime
    \/ DestroyDelete
\* Every thread that can take a step of its call takes one in the end (threads
\* are scheduled fairly; std::mutex promises no order among its waiters).
Fairness == (\A t \in Threads : WF_vars(CallStep(t))) /\ WF_vars(TeardownStep)
SpecLive == Spec /\ Fairness
SpecReentryLive == SpecReentry /\ Fairness

\* ---------------------------------------------------------------- properties
\* Registrations in progress, and registrations that are about to return OK.
RegFrames == {f \in Frames : f.op = "reg"}
DispFrames == {f \in Frames : f.op = "disp"}
\* Every magic some function object carries, reachable from the global
\* object or not.
AllMagics == {objects[o][m] : o \in DOMAIN objects, m \in MethNames} \ {0}

\* C1: the identifiers that concurrent nativeRegister calls are assigned are
\* pairwise distinct, and the registry stores each binding under its own
\* identifier: the entry a call finds under its identifier is the one it made.
C1_DistinctIdentifiers ==
    /\ \A i, j \in DOMAIN assignOrder : i # j => assignOrder[i] # assignOrder[j]
    /\ \A f, g \in RegFrames : (f.n # g.n /\ f.id # 0) => f.id # g.id
    /\ \A k \in DOMAIN bindings : bindings[k].id = k
    /\ \A f \in RegFrames :
          f.id \in DOMAIN bindings =>
             /\ bindings[f.id].method = f.method
             /\ bindings[f.id].instance = f.instance
             /\ bindings[f.id].methodName = f.in.meth
             /\ bindings[f.id].objectName = f.in.obj

\* Two registrations on different threads are past the identifier assignment
\* at once, and both bindings are in the registry.
C1_ConcurrentAssigned ==
    \E f, g \in RegFrames :
        /\ f.n.t # g.n.t
        /\ f.id \in DOMAIN bindings
        /\ g.id \in DOMAIN bindings
        /\ f.pc # "done" /\ g.pc # "done"

\* C2: when two registrations with the same objectName and different
\* methodNames have both returned OK, the global object has one namespace
\* object under that name and both methods are properties of it.
C2_SharedNamespace ==
    \A a, b \in DOMAIN bindings :
        (/\ a # b
         /\ bindings[a].objectName = bindings[b].objectName
         /\ bindings[a].methodName # bindings[b].methodName
         /\ \A f \in RegFrames : f.id \in {a, b} => (f.pc = "done" /\ f.result = "ok")
         /\ ctxLive /\ tdpc = "idle" /\ ub = NoUB)
        => LET o == globalProps[bindings[a].objectName] IN
           /\ o # 0
           /\ objects[o][bindings[a].methodName] = a
           /\ objects[o][bindings[b].methodName] = b

\* C3: the dispatcher never reads a binding, or invokes through its method or
\* instance reference, after the binding was removed from the registry.
C3_NoUseAfterRemoval ==
    ~(ub.op = "disp" /\ ub.why = "binding")

\* C4: a registration that fails at namespace creation, function creation or
\* property definition returns with an exception raised, no registry entry
\* under the identifier it was assigned, its method and instance references
\* released exactly once, and no function carrying that identifier.
RollbackFailures ==
    {"NamespaceCreationFailed", "FunctionCreationFailed", "PropertyAttachFailed"}
C4_RollbackComplete ==
    \A f \in RegFrames :
        (f.pc = "done" /\ f.result \in RollbackFailures) =>
            /\ f.id # 0
            /\ f.id \notin DOMAIN bindings
            /\ f.acquired \cap liveRefs = {}
            /\ f.acquired \cap badDeletes = {}
            /\ f.id \notin AllMagics
            /\ f.thrown = Message(f.result, f.in)
            /\ f.thrown # ""

\* A registration that holds an instance reference has failed at the property
\* definition and has returned through the rollback, while teardown is idle.
C4_RolledBack ==
    \E f \in RegFrames :
        /\ f.pc = "done" /\ f.result = "PropertyAttachFailed"
        /\ f.instance # NullRef
        /\ tdpc = "idle"

\* C5: once nativeDestroy has returned, the registry is empty and every
\* method and instance reference a nativeRegister call acquired has been
\* released, none of them more than once.
C5_AllReleasedAfterDestroy ==
    tdpc = "returned" =>
        /\ bindings = <<>>
        /\ liveRefs = {}
        /\ badDeletes = {}

\* C6: binding identifiers start at 1 and strictly increase in the order of
\* assignment, so no identifier is assigned twice, whether or not an earlier
\* one was removed from the registry by a rollback.
C6_IdentifiersIncrease ==
    /\ assignOrder # <<>> => assignOrder[1] = 1
    /\ \A i, j \in DOMAIN assignOrder : i < j => assignOrder[i] < assignOrder[j]
    /\ \A i \in DOMAIN assignOrder : assignOrder[i] < nextBindingId

\* One thread made both calls. Its first registration was assigned an
\* identifier, was rolled back and returned; its second has just been assigned
\* the next identifier.
C6_AssignedAfterRollback ==
    \E f \in RegFrames :
        /\ f.n.i = 2 /\ nCalls[f.n.t] = 2 /\ TotalCalls = 2
        /\ f.pc = "ensure_get"
        /\ Len(assignOrder) = 2
        /\ assignOrder[2] = f.id
        /\ assignOrder[1] \notin DOMAIN bindings
        /\ tdpc = "idle"

\* C7: a thread that is in the host invocation of a dispatch does not hold the
\* context mutex, and a thread that asks for the mutex never already holds it:
\* a registration or a dispatch nested in the host method locks without
\* deadlocking on its own thread.
LockSteps == {"assign_lock", "rollback_lock", "lookup_lock"}
C7_UnlockedAcrossHostCall ==
    \A t \in Threads :
        Depth(t) > 0 =>
            /\ (Top(t).op = "disp" /\ Top(t).pc \in {"invoke", "host"}) => mutex # t
            /\ Top(t).pc \in LockSteps => mutex # t

\* The host method of a dispatch registered a binding on the same thread, and
\* that registration has finished with OK.
C7_NestedRegistrationDone ==
    \E t \in Threads :
        /\ Depth(t) = 2
        /\ stack[t][1].op = "disp" /\ stack[t][1].pc = "host"
        /\ stack[t][2].op = "reg" /\ stack[t][2].pc = "done"
        /\ stack[t][2].result = "ok"
        /\ stack[t][2].id \in DOMAIN bindings

\* C8: a dispatch whose magic has no registry entry at the lookup returns the
\* error "Host binding not found" to the script, without invoking a host
\* method and without reading any binding.
C8_BindingNotFound ==
    \A f \in DispFrames :
        f.miss =>
            /\ f.pc = "done"
            /\ f.err = "BindingNotFound"
            /\ f.msg = "Host binding not found"
            /\ f.js = JsException
            /\ ~f.invoked
            /\ f.bptr = 0
            /\ f.hostArgs = <<>> /\ f.made = {}
            /\ ~(ub.t = f.n.t /\ ub.why \in {"binding", "refs"})

\* A dispatch found no entry under its magic and has returned the error.
C8_LookupMissed ==
    \E f \in DispFrames : f.miss /\ f.pc = "done" /\ f.err = "BindingNotFound"

\* C9: a registration with a parameter descriptor that is null or none of the
\* supported types fails with the unsupported-parameter-type error and leaves
\* the bridge as it was: no identifier consumed, no registry entry, no
\* namespace object, no function, and the two references it took released.
SupportedParameterTypes ==
    {"java.lang.String", "java.lang.Boolean", "boolean", "java.lang.Integer", "int",
     "java.lang.Long", "long", "java.lang.Double", "double"}
HasUnsupportedParameter(in) ==
    /\ in.ptr # 0 /\ in.obj # "" /\ in.meth # ""
    /\ \E i \in DOMAIN in.params : in.params[i] \notin SupportedParameterTypes
C9_Rejected ==
    \A f \in RegFrames :
        HasUnsupportedParameter(f.in) =>
            /\ f.pc = "done"
            /\ f.result = "UnsupportedParameterType"
            /\ f.thrown = "Unsupported parameter type for method "
                             \o f.in.obj \o "." \o f.in.meth
            /\ f.id = 0
            /\ f.acquired \cap liveRefs = {}
            /\ f.acquired \cap badDeletes = {}
            /\ \A k \in DOMAIN bindings :
                  bindings[k].method \notin f.acquired
                  /\ bindings[k].instance \notin f.acquired
C9_Untouched ==
    \A t \in Threads :
        (/\ Len(stack'[t]) = Len(stack[t]) + 1
         /\ stack'[t][Len(stack'[t])].op = "reg"
         /\ HasUnsupportedParameter(stack'[t][Len(stack'[t])].in))
        => /\ bindings' = bindings
           /\ nextBindingId' = nextBindingId
           /\ assignOrder' = assignOrder
           /\ globalProps' = globalProps
           /\ objects' = objects
           /\ liveRefs' = liveRefs
           /\ badDeletes' = badDeletes
           /\ mutex' = mutex
C9_UnsupportedParameterRejected ==
    []C9_Rejected /\ [][C9_Untouched]_vars

\* A registration whose second descriptor is null has returned the error, and
\* it had taken a reference for its method.
C9_NullDescriptorRejected ==
    \E f \in RegFrames :
        /\ f.in.params = <<"java.lang.String", "null">>
        /\ f.pc = "done" /\ f.result = "UnsupportedParameterType"
        /\ f.acquired # {}
        /\ bindings # <<>>

\* C10: when an argument at a position whose kind is not String cannot be
\* converted, the dispatch returns an error that names objectName.methodName,
\* the host method is not invoked, and the argument array and every argument
\* reference made before the failure are released exactly once.
Times(seq, x) == Cardinality({i \in DOMAIN seq : seq[i] = x})
FailsConversion(kinds, args) ==
    \E i \in DOMAIN kinds :
        /\ i \in DOMAIN args
        /\ kinds[i] \in {"Int", "Long", "Double"}
        /\ args[i] = JsSymbol
C10_ConversionFailure ==
    \A f \in DispFrames :
        /\ f.err = "ArgumentConversionError" =>
              /\ f.pc = "done"
              /\ f.js = JsException
              /\ ~f.invoked /\ f.hostArgs = <<>>
              /\ LocalRef("array", 0) \in f.made
              /\ \A r \in f.made : Times(f.freed, r) = 1
              /\ f.bptr \in DOMAIN bindings =>
                    f.msg = "Unable to convert argument for method "
                               \o bindings[f.bptr].objectName \o "."
                               \o bindings[f.bptr].methodName
        /\ (/\ f.pc \in {"host", "done"}
            /\ f.bptr \in DOMAIN bindings
            /\ f.err \notin {"EnvironmentUnavailable", "ArrayAllocationFailed"}
            /\ FailsConversion(bindings[f.bptr].parameterKinds, f.args))
           => f.err = "ArgumentConversionError"

\* A dispatch converted its String argument, failed on the symbol passed for
\* its int parameter, and has returned the error.
C10_FailedAfterStringArgument ==
    \E f \in DispFrames :
        /\ f.pc = "done" /\ f.err = "ArgumentConversionError"
        /\ f.args = <<JsStr("7"), JsSymbol>>
        /\ LocalRef("arg", 1) \in f.made

\* C11: when the host method raises, the dispatch returns a script error whose
\* message is the message of the throwable, or "Host method threw an
\* exception" when getMessage raises, returns null or returns the empty text;
\* no host exception is pending when the dispatcher returns, and the return
\* value is not converted.
GenericHostError == "Host method threw an exception"
C11_HostExceptionSurfaced ==
    \A f \in DispFrames :
        f.out.kind = "throw" =>
            /\ f.pc = "done"
            /\ f.err = "HostInvocationError"
            /\ f.js = JsException
            /\ f.msg = IF f.out.msg \in {"", "null", "throws"}
                       THEN GenericHostError ELSE f.out.msg
            /\ ~f.pending
            /\ ~f.converted

\* The host method raised a throwable whose getMessage raises too, and the
\* dispatch has returned the generic error.
C11_GetMessageRaised ==
    \E f \in DispFrames :
        /\ f.pc = "done" /\ f.out = HostThrows("throws")
        /\ f.invoked
        /\ f.msg = GenericHostError

\* C12: on every exit path of a dispatch, each transient host reference the
\* invocation made (converted arguments, argument array, result, throwable
\* and its message) is deleted exactly once before the dispatcher returns,
\* and nothing else is deleted.
C12_TransientsReleased ==
    \A f \in DispFrames :
        f.pc = "done" =>
            /\ \A r \in f.made : Times(f.freed, r) = 1
            /\ \A i \in DOMAIN f.freed : f.freed[i] \in f.made
            /\ f.err \in {"BindingNotFound", "EnvironmentUnavailable",
                          "ArrayAllocationFailed"} => f.made = {}
            /\ f.invoked => ArgRefs(f.hostArgs) \subseteq f.made
            /\ (f.invoked /\ f.hostArgs # <<>>) => LocalRef("array", 0) \in f.made
            /\ f.out.kind = "throw" =>
                  /\ LocalRef("throwable", 0) \in f.made
                  /\ f.out.msg \notin {"null", "throws"} => LocalRef("message", 0) \in f.made
            /\ (f.out.kind = "return" /\ f.out.value # HostNull) =>
                  LocalRef("result", 0) \in f.made

\* A dispatch with two converted arguments whose host method raised with a
\* message has returned: it had made five transient references.
C12_HostExceptionWithArguments ==
    \E f \in DispFrames :
        /\ f.pc = "done" /\ f.out = HostThrows("boom")
        /\ f.made = {LocalRef("array", 0), LocalRef("arg", 1), LocalRef("arg", 2),
                     LocalRef("throwable", 0), LocalRef("message", 0)}

\* C13: a binding with n declared parameters that is called with argc < n
\* arguments converts every position from argc on from the script undefined
\* value; the missing arguments cause no conversion error for any kind, the
\* host method gets exactly n arguments, and a String parameter at such a
\* position gets host null.
UndefinedAs(kind) ==
    CASE kind = "String" -> HostNull
      [] kind = "Boolean" -> HostBox("Boolean", 0)
      [] kind = "Int" -> HostBox("Integer", 0)
      [] kind = "Long" -> HostBox("Long", 0)
      [] OTHER -> [cls |-> "Double", v |-> 0, s |-> "NaN"]
SuppliedConvert(kinds, args) ==
    \A i \in DOMAIN args :
        i \in DOMAIN kinds => ~(kinds[i] \in {"Int", "Long", "Double"} /\ args[i] = JsSymbol)
C13_MissingArguments ==
    \A f \in DispFrames :
        (/\ f.pc \in {"host", "done"}
         /\ f.bptr \in DOMAIN bindings
         /\ Len(f.args) < Len(bindings[f.bptr].parameterKinds)
         /\ f.err \notin {"EnvironmentUnavailable", "ArrayAllocationFailed"}
         /\ SuppliedConvert(bindings[f.bptr].parameterKinds, f.args))
        => LET kinds == bindings[f.bptr].parameterKinds IN
           /\ f.err # "ArgumentConversionError"
           /\ f.invoked
           /\ Len(f.hostArgs) = Len(kinds)
           /\ \A i \in DOMAIN kinds :
                 i > Len(f.args) =>
                    /\ f.hostArgs[i] = UndefinedAs(kinds[i])
                    /\ kinds[i] = "String" <=> f.hostArgs[i] = HostNull

\* A function declared with a double and a String parameter was called
\* without arguments and its host method is running.
C13_CalledWithoutArguments ==
    \E f \in DispFrames :
        /\ f.pc = "host" /\ f.args = <<>>
        /\ f.bptr \in DOMAIN bindings
        /\ bindings[f.bptr].parameterKinds = <<"Double", "String">>
        /\ Len(f.hostArgs) = 2

\* C14: nativeDestroy (1) deletes every binding's references and clears the
\* registry while it holds the mutex, (2) releases the cached classes, (3)
\* frees the script context and then the runtime, (4) deletes the context
\* object; no step begins before the one before it has finished, and the
\* mutex is not held when step 2 begins.
RuntimeFreed == tdpc \in {"engine_freed", "returned"}
C14_Progress ==
    /\ tdpc = "idle" => (refsLive /\ ctxLive /\ ~RuntimeFreed /\ ~deleted)
    /\ tdpc = "locked" =>
          (mutex = TeardownThread /\ refsLive /\ ctxLive /\ ~RuntimeFreed /\ ~deleted)
    /\ tdpc = "unlocked" =>
          (mutex # TeardownThread /\ refsLive /\ ctxLive /\ ~RuntimeFreed /\ ~deleted)
    /\ tdpc = "refs_released" =>
          (mutex # TeardownThread /\ ~refsLive /\ ctxLive /\ ~RuntimeFreed /\ ~deleted)
    /\ tdpc = "context_freed" => (~refsLive /\ ~ctxLive /\ ~RuntimeFreed /\ ~deleted)
    /\ tdpc = "engine_freed" => (~refsLive /\ ~ctxLive /\ RuntimeFreed /\ ~deleted)
    /\ tdpc = "returned" => (~refsLive /\ ~ctxLive /\ RuntimeFreed /\ deleted)
C14_Steps ==
    /\ (refsLive /\ ~refsLive') =>
          (tdpc = "unlocked" /\ mutex # TeardownThread /\ ctxLive' /\ ~deleted')
    /\ (ctxLive /\ ~ctxLive') => (~refsLive /\ ~RuntimeFreed' /\ ~deleted')
    /\ (~RuntimeFreed /\ RuntimeFreed') => (~ctxLive /\ ~refsLive /\ ~deleted')
    /\ (~deleted /\ deleted') => (RuntimeFreed /\ ~ctxLive /\ ~refsLive)
    /\ (tdpc = "locked" /\ tdpc' # "locked") =>
          /\ mutex = TeardownThread
          /\ bindings' = <<>>
          /\ \A k \in DOMAIN bindings :
                {bindings[k].method, bindings[k].instance} \cap liveRefs' = {}
          /\ refsLive' /\ ctxLive'
C14_TeardownOrder ==
    []C14_Progress /\ [][C14_Steps]_vars

\* nativeDestroy has returned after it released the references of a binding
\* that was in the registry.
C14_DestroyedWithBinding ==
    /\ tdpc = "returned"
    /\ assignOrder # <<>>
    /\ liveRefs = {}
    /\ \E f \in RegFrames : f.pc = "done" /\ f.result = "ok"

\* C15: whenever no registration is in progress and teardown has not started,
\* every binding of the registry has its function reachable as the property
\* methodName of the namespace object objectName, tagged with the binding's
\* identifier, and the tag of every reachable function is a registry key.
Quiescent ==
    /\ \A f \in RegFrames : f.pc = "done"
    /\ tdpc = "idle"
    /\ ub = NoUB
C15_OneToOne ==
    Quiescent =>
        /\ \A k \in DOMAIN bindings :
              /\ globalProps[bindings[k].objectName] # 0
              /\ objects[globalProps[bindings[k].objectName]][bindings[k].methodName] = k
        /\ ReachableMagics \subseteq DOMAIN bindings

\* C16: a registration whose return descriptor is not null, not the void type
\* and none of the supported types fails with the unsupported-return-type
\* error, stores no binding, consumes no identifier and releases its method
\* and instance references; a null or void return descriptor gives the return
\* kind Void and never this error.
ValidCall(in) ==
    /\ in.ptr # 0 /\ in.obj # "" /\ in.meth # ""
    /\ \A i \in DOMAIN in.params : in.params[i] \in SupportedParameterTypes
C16_ReturnDescriptor ==
    \A f \in RegFrames :
        ValidCall(f.in) =>
            /\ f.in.ret \notin SupportedParameterTypes \cup {"null", "void"} =>
                  /\ f.pc = "done"
                  /\ f.result = "UnsupportedReturnType"
                  /\ f.thrown = "Unsupported return type for method "
                                   \o f.in.obj \o "." \o f.in.meth
                  /\ f.id = 0
                  /\ f.acquired \cap liveRefs = {}
                  /\ f.acquired \cap badDeletes = {}
                  /\ \A k \in DOMAIN bindings : bindings[k].method \notin f.acquired
            /\ f.in.ret \in {"null", "void"} =>
                  /\ f.result # "UnsupportedReturnType"
                  /\ f.ret = "Void"

\* C17: nativeRegister on a context with an empty objectName or an empty
\* methodName raises the invalid-registration error and changes nothing: the
\* registry, the identifier counter and the script namespace stay as they
\* were, and no host reference is acquired.
EmptyName(in) == in.ptr # 0 /\ (in.obj = "" \/ in.meth = "")
C17_Rejected ==
    \A f \in RegFrames :
        EmptyName(f.in) =>
            /\ f.pc = "done"
            /\ f.result = "InvalidRegistration"
            /\ f.thrown = "Object or method name cannot be empty"
            /\ f.id = 0
            /\ f.acquired = {}
            /\ f.method = NullRef /\ f.instance = NullRef
C17_Untouched ==
    \A t \in Threads :
        (/\ Len(stack'[t]) = Len(stack[t]) + 1
         /\ stack'[t][Len(stack'[t])].op = "reg"
         /\ EmptyName(stack'[t][Len(stack'[t])].in))
        => /\ bindings' = bindings
           /\ nextBindingId' = nextBindingId
           /\ assignOrder' = assignOrder
           /\ globalProps' = globalProps
           /\ objects' = objects
           /\ liveRefs' = liveRefs
           /\ badDeletes' = badDeletes
           /\ mutex' = mutex
C17_EmptyNameRejected ==
    []C17_Rejected /\ [][C17_Untouched]_vars

\* A registration with a method name but an empty object name has returned
\* the error.
C17_EmptyObjectName ==
    \E f \in RegFrames :
        /\ f.in.ptr # 0 /\ f.in.obj = "" /\ f.in.meth = "f"
        /\ f.pc = "done" /\ f.result = "InvalidRegistration"

\* C18: when the global object already has an object under the name,
\* ensureGlobalObject returns that object and replaces nothing; registrations
\* made one after the other under one objectName attach to the same object,
\* and a method attached earlier under another methodName stays reachable
\* (two methods, neither of whose names was registered a further time).
OneRegistrant == nCalls["h1"] = 0 \/ nCalls["js"] = 0
C18_Sequential ==
    (OneRegistrant /\ tdpc = "idle") =>
        \A a, b \in DOMAIN bindings :
            (/\ a # b
             /\ bindings[a].objectName = bindings[b].objectName
             /\ bindings[a].methodName # bindings[b].methodName
             /\ \A c \in DOMAIN bindings \ {a, b} :
                   ~(/\ bindings[c].objectName = bindings[a].objectName
                     /\ bindings[c].methodName
                           \in {bindings[a].methodName, bindings[b].methodName})
             /\ \A f \in RegFrames : f.id \in {a, b} => (f.pc = "done" /\ f.result = "ok"))
            => LET o == globalProps[bindings[a].objectName] IN
               /\ o # 0
               /\ objects[o][bindings[a].methodName] = a
               /\ objects[o][bindings[b].methodName] = b
C18_ReturnsExisting ==
    \A t \in Threads :
        (/\ In(t, "reg", "ensure_get")
         /\ stack'[t] # stack[t]
         /\ globalProps[Top(t).in.obj] # 0)
        => /\ stack'[t][Len(stack'[t])].obj = globalProps[Top(t).in.obj]
           /\ stack'[t][Len(stack'[t])].pc = "attach"
           /\ globalProps' = globalProps
           /\ objects' = objects
C18_NamespaceIdempotent ==
    []C18_Sequential /\ [][C18_ReturnsExisting]_vars

\* One thread registered A.f and then A.g: both are properties of the one
\* object that is the global A.
C18_SecondMethodAttached ==
    /\ OneRegistrant /\ tdpc = "idle"
    /\ Len(objects) = 1
    /\ globalProps["A"] = 1
    /\ objects[1]["f"] # 0 /\ objects[1]["g"] # 0
    /\ objects[1]["f"] < objects[1]["g"]

\* C19: for each kind K of String, Boolean, Int, Long, Double and each value v
\* of K, convertJsToJava(K, v) followed by convertJavaToJs(K, .) gives a script
\* value equal to v; at kind String script null becomes host null, and host
\* null becomes script null again.
ConvFrames == {f \in Frames : f.op = "conv"}
C19_RoundTrip ==
    \A f \in ConvFrames :
        /\ f.pc = "done" => f.js = f.args[1]
        /\ (f.pc \in {"to_script", "done"} /\ f.kinds = <<"String">> /\ f.args = <<JsNull>>)
              => f.hostArgs = <<HostNull>>

\* C20: a dispatch invokes the host runtime only on a thread that is attached
\* to it. requireEnv on an attached thread returns the existing environment
\* and attaches nothing; on a detached thread it attaches the thread and
\* returns its environment, or it returns none and the dispatch ends with
\* "Failed to obtain JNI environment" before any host invocation. No step of
\* the bridge detaches a thread.
C20_AttachedWhenInvoking ==
    \A t \in Threads : \A i \in 1..Len(stack[t]) :
        LET f == stack[t][i] IN
        (f.op = "disp" /\ (f.invoked \/ f.env \in {"existing", "attached"} \/ f.made # {}))
            => t \in attached
C20_RequireEnvStep ==
    /\ attached \subseteq attached'
    /\ \A t \in Threads :
          (In(t, "disp", "invoke") /\ stack'[t] # stack[t]) =>
              LET g == stack'[t][Len(stack'[t])] IN
              /\ t \in attached =>
                    /\ attached' = attached
                    /\ g.env \in {"existing", "null"}
              /\ t \notin attached =>
                    \/ g.env = "attached" /\ attached' = attached \cup {t}
                    \/ /\ g.env = "null" /\ attached' = attached
                       /\ g.msg = "Failed to obtain JNI environment"
                       /\ ~g.invoked /\ g.made = {}
          /\ (~In(t, "disp", "invoke") \/ stack'[t] = stack[t]) =>
                (t \in attached' <=> t \in attached)
C20_AttachIfDetached == []C20_AttachedWhenInvoking /\ [][C20_RequireEnvStep]_vars
C20_DetachedThreadInvoked ==
    \E f \in DispFrames : f.env = "attached" /\ f.invoked /\ f.out.kind = "return"

CriticalPcs == {"assign", "rollback", "lookup"}
InCritical(t) ==
    \/ Depth(t) > 0 /\ Top(t).pc \in CriticalPcs
    \/ t = TeardownThread /\ tdpc = "locked"
Actor(t) == stack'[t] # stack[t] \/ (t = TeardownThread /\ tdpc' # tdpc)
C22_HolderInside ==
    /\ \A t \in Threads : InCritical(t) => mutex = t
    /\ Cardinality({t \in Threads : InCritical(t)}) <= 1
C22_WriterHolds ==
    \A t \in Threads :
        (Actor(t) /\ (bindings' # bindings \/ nextBindingId' # nextBindingId)) => mutex = t
C22_RegistryUnderMutex == []C22_HolderInside /\ [][C22_WriterHolds]_vars

\* C23: as long as nativeDestroy has not started, every function the script
\* can reach has its binding in the registry, and so has every dispatch in
\* progress: no lookup misses. A registration attaches its function only with
\* its binding stored, and a rollback removes only the binding of its own
\* registration, whose function is not reachable.
C23_Present ==
    tdpc = "idle" =>
        /\ ReachableMagics \subseteq DOMAIN bindings
        /\ \A f \in DispFrames : f.magic \in DOMAIN bindings /\ ~f.miss
C23_Steps ==
    \A t \in Threads :
        (tdpc = "idle" /\ stack'[t] # stack[t]) =>
            /\ (In(t, "reg", "attach") /\ objects' # objects) => Top(t).id \in DOMAIN bindings
            /\ In(t, "reg", "rollback") =>
                  /\ Top(t).id \notin ReachableMagics
                  /\ DOMAIN bindings \ DOMAIN bindings' \subseteq {Top(t).id}
C23_BindingPresent == []C23_Present /\ [][C23_Steps]_vars
\* A registration was rolled back while the function of an earlier one is
\* reachable, before any nativeDestroy.
C23_ReachableAfterRollback ==
    /\ tdpc = "idle"
    /\ ReachableMagics # {}
    /\ Len(assignOrder) > Cardinality(DOMAIN bindings)
    /\ \A t \in Threads : Depth(t) = 0

\* C24: every binding in the registry has parameter kinds among String,
\* Boolean, Int, Long, Double only, and a return kind among these or Void;
\* the binding a registration stores has one kind per descriptor it was given,
\* in the descriptors' order, and a stored binding's kinds never change.
KindOfDescriptor(d) ==
    CASE d = "java.lang.String" -> "String"
      [] d \in {"java.lang.Boolean", "boolean"} -> "Boolean"
      [] d \in {"java.lang.Integer", "int"} -> "Int"
      [] d \in {"java.lang.Long", "long"} -> "Long"
      [] d \in {"java.lang.Double", "double"} -> "Double"
      [] OTHER -> "Void"
C24_Kinds ==
    \A k \in DOMAIN bindings :
        /\ \A i \in DOMAIN bindings[k].parameterKinds :
              bindings[k].parameterKinds[i] \in ParamKinds
        /\ bindings[k].returnKind \in ParamKinds \cup {"Void"}
C24_Stored ==
    /\ \A t \in Threads :
          (In(t, "reg", "assign") /\ stack'[t] # stack[t]) =>
              LET id == stack'[t][Len(stack'[t])].id
                  ds == Top(t).in.params
              IN  /\ id \in DOMAIN bindings' /\ id \notin DOMAIN bindings
                  /\ Len(bindings'[id].parameterKinds) = Len(ds)
                  /\ \A i \in 1..Len(ds) :
                        bindings'[id].parameterKinds[i] = KindOfDescriptor(ds[i])
    /\ \A k \in DOMAIN bindings \cap DOMAIN bindings' :
          /\ bindings'[k].parameterKinds = bindings[k].parameterKinds
          /\ bindings'[k].returnKind = bindings[k].returnKind
C24_ParameterKinds == []C24_Kinds /\ [][C24_Stored]_vars
\* A binding with two parameters of different kinds, and one with a Void
\* return kind, are in the registry.
C24_TwoKindsStored ==
    /\ \E k \in DOMAIN bindings : bindings[k].parameterKinds = <<"String", "Int">>
    /\ \E k \in DOMAIN bindings : bindings[k].returnKind = "Void"

\* C25: when a dispatch invokes the host method, the argument at a String
\* parameter is the host null exactly when the script argument at that
\* position is null, undefined or missing, and otherwise it is a host string
\* with the text of the script value.
NoScriptValue(args, i) == i > Len(args) \/ args[i] \in {JsNull, JsUndefined}
C25_StringArguments ==
    \A f \in DispFrames :
        (f.invoked /\ f.bptr \in DOMAIN bindings) =>
            \A i \in DOMAIN bindings[f.bptr].parameterKinds :
                bindings[f.bptr].parameterKinds[i] = "String" =>
                    /\ f.hostArgs[i] = HostNull <=> NoScriptValue(f.args, i)
                    /\ ~NoScriptValue(f.args, i) =>
                          /\ f.hostArgs[i].cls = "String"
                          /\ f.hostArgs[i].s = ToCString(f.args[i]).s

\* C26: a dispatch that finds no QuickJsContext behind the script context, or
\* gets no JNI environment, ends with a script error, has invoked no host
\* method and made no host reference, and the step in which it fails changes
\* neither bindings nor nextBindingId nor the global references.
C26_Failed(f) == f.err = "ContextMissing" \/ f.env = "null"
C26_NothingDone ==
    \A f \in DispFrames :
        C26_Failed(f) =>
            /\ f.pc = "done"
            /\ f.js = JsException
            /\ f.err \in {"ContextMissing", "EnvironmentUnavailable"}
            /\ f.msg = (IF f.err = "ContextMissing" THEN "QuickJs context missing"
                        ELSE "Failed to obtain JNI environment")
            /\ ~f.invoked
            /\ f.hostArgs = <<>> /\ f.made = {} /\ f.out = NoOutcome
C26_FailingStep ==
    \A t \in Threads :
        (/\ Depth(t) > 0 /\ Len(stack'[t]) = Len(stack[t])
         /\ Top(t).op = "disp" /\ ~C26_Failed(Top(t))
         /\ C26_Failed(stack'[t][Len(stack'[t])]))
        => /\ bindings' = bindings
           /\ nextBindingId' = nextBindingId
           /\ liveRefs' = liveRefs
C26_FailsBeforeInvoking == []C26_NothingDone /\ [][C26_FailingStep]_vars
\* A dispatch of a registered function found its binding, got no environment
\* and has returned the error.
C26_NoEnvironment ==
    \E f \in DispFrames :
        /\ f.env = "null" /\ f.pc = "done" /\ f.err = "EnvironmentUnavailable"
        /\ f.bptr \in DOMAIN bindings

\* C27: when the host method has returned without raising, the dispatch gives
\* the script undefined at return kind Void whatever was returned; for a null
\* result it gives null at String, false at Boolean and the number 0 at Int,
\* Long and Double; for a non-null result it gives the string, the boolean or
\* the number that the returned object holds.
ScriptResult(kind, value) ==
    IF kind = "Void" THEN JsUndefined
    ELSE IF value = HostNull
    THEN (CASE kind = "String" -> JsNull
            [] kind = "Boolean" -> JsBool(FALSE)
            [] OTHER -> JsInt(0))
    ELSE (CASE kind = "String" -> JsStr(value.s)
            [] kind = "Boolean" -> JsBool(value.v = 1)
            [] kind \in {"Int", "Long"} -> JsInt(value.v)
            [] OTHER -> [ty |-> "number", v |-> value.v, s |-> value.s])
C27_ReturnConversion ==
    \A f \in DispFrames :
        (f.pc = "done" /\ f.out.kind = "return" /\ f.bptr \in DOMAIN bindings) =>
            /\ f.err = ""
            /\ f.js = ScriptResult(bindings[f.bptr].returnKind, f.out.value)
            /\ f.converted <=> bindings[f.bptr].returnKind # "Void"
\* A host method of return kind Boolean returned null and the dispatch is
\* done with the result false.
C27_NullAtBoolean ==
    \E f \in DispFrames :
        /\ f.pc = "done" /\ f.out = HostReturns(HostNull)
        /\ f.bptr \in DOMAIN bindings /\ bindings[f.bptr].returnKind = "Boolean"
        /\ f.js = JsBool(FALSE)

====
